---- MODULE Spec2Model ----
(***************************************************************************)
(* Rated-list node (simulator/node.py): the peer graph, the custody index, *)
(* the per-root score keepers, the node score and the peer filter of one   *)
(* Node object.                                                            *)
(*                                                                         *)
(* Every handler is one action.  A handler that raises leaves the object   *)
(* in the state it had reached when the exception was raised; the          *)
(* exception's name is recorded in last.outcome.  A handler whose loop     *)
(* never ends is recorded with the outcome "hang"; the object is           *)
(* single-threaded, so nothing runs after it.                              *)
(***************************************************************************)
EXTENDS Integers, Sequences, FiniteSets, TLC

VARIABLES nodes, scores, sample_mapping, last, calls

vars == <<nodes, scores, sample_mapping, last, calls>>

-----------------------------------------------------------------------------
(* Identifier universes and bounds of the exploration                      *)

own_id == "L"

NodeIds == {"L", "A", "B", "C"}

Roots == {"r1"}

SampleIds == {"s1", "s2"}

\* longest peer list handed to on_get_peers_response
MaxPeers == 2

\* calls of on_get_peers_response explored when the graph is studied alone
MaxGraphCalls == 3

\* calls explored per component when all handlers interleave
MaxPeerCalls == 3

MaxScoreCalls == 2

MaxCustodyCalls == 1

\* longest peer list when every handler interleaves
MaxShortPeers == 1

\* calls explored when the score keepers are studied with the graph
MaxLedgerPeerCalls == 2

MaxLedgerCalls == 3

\* join / leave calls explored when the custody index is studied without the graph
MaxIndexCalls == 3

\* calls explored when the filter is studied with the graph, the score
\* keepers and the nodes that join
MaxFilterPeerCalls == 3

MaxFilterScoreCalls == 2

MaxFilterJoins == 2

-----------------------------------------------------------------------------
(* Python containers                                                       *)

InSeq(x, s) == \E i \in 1..Len(s) : s[i] = x

SeqSet(s) == {s[i] : i \in 1..Len(s)}

FirstIndex(s, x) == CHOOSE i \in 1..Len(s) : s[i] = x /\ \A j \in 1..(i - 1) : s[j] # x

\* list.remove(x) for x in the list: drops the first occurrence
ListRemove(s, x) ==
    LET k == FirstIndex(s, x)
    IN [i \in 1..(Len(s) - 1) |-> IF i < k THEN s[i] ELSE s[i + 1]]

\* del d[k]
DictDel(d, k) == [x \in (DOMAIN d) \ {k} |-> d[x]]

\* d[k] = v
DictSet(d, k, v) == [x \in (DOMAIN d) \cup {k} |-> IF x = k THEN v ELSE d[x]]

EmptyDict == [x \in {} |-> {}]

NodeRecord(c, p) == [children |-> c, parents |-> p]

Result(ns, o) == [nodes |-> ns, outcome |-> o]

-----------------------------------------------------------------------------
(* on_get_peers_response                                                   *)

\* lines 63-70 for one peer_id; node_id is a key of ns
LinkPeer(ns, node_id, peer_id) ==
    LET ns1 == IF peer_id \in DOMAIN ns
               THEN ns
               ELSE DictSet(ns, peer_id, NodeRecord(<<>>, <<>>))
        ns2 == [ns1 EXCEPT ![peer_id].parents = Append(@, node_id)]
    IN [ns2 EXCEPT ![node_id].children = Append(@, peer_id)]

RECURSIVE LinkPeers(_, _, _, _)
\* the first loop, lines 62-70, from peers[i] on
LinkPeers(ns, node_id, peers, i) ==
    IF i > Len(peers)
    THEN ns
    ELSE LinkPeers(LinkPeer(ns, node_id, peers[i]), node_id, peers, i + 1)

\* a mutation of DropOrphan: the orphan check of lines 78-79 left out
KeepOrphan(ns, child_id) == ns

\* lines 78-79
DropOrphan(ns, child_id) ==
    IF Len(ns[child_id].parents) = 0 THEN DictDel(ns, child_id) ELSE ns

\* lines 75-79 for one stale child_id; lst is the list object the loop walks
UnlinkChild(ns, lst, node_id, child_id) ==
    IF node_id \notin DOMAIN ns
    THEN [nodes |-> ns, lst |-> lst, outcome |-> "KeyError"]
    ELSE LET lst1 == ListRemove(lst, child_id)
             ns1 == [ns EXCEPT ![node_id].children = lst1]
         IN IF child_id \notin DOMAIN ns1
            THEN [nodes |-> ns1, lst |-> lst1, outcome |-> "KeyError"]
            ELSE IF ~InSeq(node_id, ns1[child_id].parents)
            THEN [nodes |-> ns1, lst |-> lst1, outcome |-> "ValueError"]
            ELSE LET ns2 == [ns1 EXCEPT ![child_id].parents = ListRemove(@, node_id)]
                 IN [nodes |-> DropOrphan(ns2, child_id), lst |-> lst1, outcome |-> "ok"]

RECURSIVE SweepChildren(_, _, _, _, _)
\* the second loop, lines 72-79: a list iterator at index i over the children
\* list lst of node_id, which the body shortens while the iterator advances
SweepChildren(ns, lst, i, node_id, peers) ==
    IF i > Len(lst)
    THEN Result(ns, "ok")
    ELSE IF InSeq(lst[i], peers)
    THEN SweepChildren(ns, lst, i + 1, node_id, peers)
    ELSE LET r == UnlinkChild(ns, lst, node_id, lst[i])
         IN IF r.outcome # "ok"
            THEN Result(r.nodes, r.outcome)
            ELSE SweepChildren(r.nodes, r.lst, i + 1, node_id, peers)

\* the whole handler on a known node_id
GetPeersResponse(ns, node_id, peers) ==
    LET ns1 == LinkPeers(ns, node_id, peers, 1)
    IN SweepChildren(ns1, ns1[node_id].children, 1, node_id, peers)

PeerLists == UNION {[1..n -> NodeIds] : n \in 0..MaxPeers}

Called(op, outcome) == [op |-> op, outcome |-> outcome]

Running == last.outcome # "hang"

on_get_peers_response(node_id, peers) ==
    /\ Running
    /\ node_id \in DOMAIN nodes
    /\ LET r == GetPeersResponse(nodes, node_id, peers)
       IN /\ nodes' = r.nodes
          /\ last' = Called("on_get_peers_response", r.outcome)
    /\ calls' = [calls EXCEPT !.peers = @ + 1]
    /\ UNCHANGED <<scores, sample_mapping>>

-----------------------------------------------------------------------------
(* on_request_score_update, on_response_score_update                       *)

ScoreKeeper(c, r) == [descendants_contacted |-> c, descendants_replied |-> r]

\* lines 126-129 (145-148) for every ancestor in as
AddPair(m, as, pair) ==
    [x \in (DOMAIN m) \cup as |->
        IF x \in as
        THEN (IF x \in DOMAIN m THEN m[x] ELSE {}) \cup {pair}
        ELSE m[x]]

Parents(ns, as) == UNION {SeqSet(ns[a].parents) : a \in as}

RECURSIVE AncestorWalk(_, _, _, _, _)
\* the while loop of lines 123-131 (142-150) with cur_ancestors = cur: the set
\* of ways it can end, each with the map it leaves.  The loop repeats for ever
\* once a frontier comes back (seen).  A frontier holding an id with no
\* NodeRecord raises KeyError at line 130 (149), after the entries of that id
\* and of the ancestors the set iterator gave before it were written.
AncestorWalk(ns, m, cur, pair, seen) ==
    IF cur = {}
    THEN {[map |-> m, outcome |-> "ok"]}
    ELSE IF cur \in seen
    THEN {[map |-> m, outcome |-> "hang"]}
    ELSE LET missing == {a \in cur : a \notin DOMAIN ns}
         IN IF missing # {}
            THEN {[map |-> AddPair(m, before \cup {a}, pair), outcome |-> "KeyError"] :
                     a \in missing, before \in SUBSET (cur \ missing)}
            ELSE AncestorWalk(ns, AddPair(m, cur, pair), Parents(ns, cur), pair,
                              seen \cup {cur})

on_request_score_update(block_root, node_id, sample_id) ==
    /\ Running
    /\ IF node_id \notin DOMAIN nodes
       THEN /\ scores' = scores
            /\ last' = Called("on_request_score_update", "KeyError")
       ELSE LET scores1 == IF block_root \in DOMAIN scores
                           THEN scores
                           ELSE DictSet(scores, block_root, ScoreKeeper(EmptyDict, EmptyDict))
            IN \E w \in AncestorWalk(nodes, scores1[block_root].descendants_contacted,
                                     SeqSet(nodes[node_id].parents),
                                     <<node_id, sample_id>>, {}) :
                  /\ scores' = [scores1 EXCEPT ![block_root].descendants_contacted = w.map]
                  /\ last' = Called("on_request_score_update", w.outcome)
    /\ calls' = [calls EXCEPT !.score = @ + 1]
    /\ UNCHANGED <<nodes, sample_mapping>>

\* a mutation of on_response_score_update: a missing ScoreKeeper is created
\* as lines 116-117 do, in place of the lookup of line 138
ResponseCreatesKeeper(block_root, node_id, sample_id) ==
    /\ Running
    /\ IF node_id \notin DOMAIN nodes
       THEN /\ scores' = scores
            /\ last' = Called("on_response_score_update", "KeyError")
       ELSE LET scores1 == IF block_root \in DOMAIN scores
                           THEN scores
                           ELSE DictSet(scores, block_root, ScoreKeeper(EmptyDict, EmptyDict))
            IN \E w \in AncestorWalk(nodes, scores1[block_root].descendants_replied,
                                     SeqSet(nodes[node_id].parents),
                                     <<node_id, sample_id>>, {}) :
                  /\ scores' = [scores1 EXCEPT ![block_root].descendants_replied = w.map]
                  /\ last' = Called("on_response_score_update", w.outcome)
    /\ calls' = [calls EXCEPT !.score = @ + 1]
    /\ UNCHANGED <<nodes, sample_mapping>>

on_response_score_update(block_root, node_id, sample_id) ==
    /\ Running
    /\ IF node_id \notin DOMAIN nodes \/ block_root \notin DOMAIN scores
       THEN /\ scores' = scores
            /\ last' = Called("on_response_score_update", "KeyError")
       ELSE \E w \in AncestorWalk(nodes, scores[block_root].descendants_replied,
                                  SeqSet(nodes[node_id].parents),
                                  <<node_id, sample_id>>, {}) :
               /\ scores' = [scores EXCEPT ![block_root].descendants_replied = w.map]
               /\ last' = Called("on_response_score_update", w.outcome)
    /\ calls' = [calls EXCEPT !.score = @ + 1]
    /\ UNCHANGED <<nodes, sample_mapping>>

-----------------------------------------------------------------------------
(* add_samples_on_entry, remove_samples_on_exit                            *)

\* dascore.get_custody_columns: a fixed list of sample ids per node id
get_custody_columns(node_id) ==
    CASE node_id = "L" -> <<"s1", "s2">>
      [] node_id = "A" -> <<"s1", "s2">>
      [] node_id = "B" -> <<"s1">>
      [] OTHER -> <<"s2">>

RECURSIVE AddSamples(_, _, _, _)
\* lines 156-160 from sample_ids[i] on
AddSamples(sm, node_id, sample_ids, i) ==
    IF i > Len(sample_ids)
    THEN sm
    ELSE LET id == sample_ids[i]
             sm1 == IF id \in DOMAIN sm THEN sm ELSE DictSet(sm, id, {})
         IN AddSamples([sm1 EXCEPT ![id] = @ \cup {node_id}], node_id, sample_ids, i + 1)

RECURSIVE RemoveSamples(_, _, _, _)
\* lines 166-170 from sample_ids[i] on; set.remove raises KeyError on a
\* missing element
RemoveSamples(sm, node_id, sample_ids, i) ==
    IF i > Len(sample_ids)
    THEN [sample_mapping |-> sm, outcome |-> "ok"]
    ELSE LET id == sample_ids[i]
         IN IF id \notin DOMAIN sm
            THEN RemoveSamples(sm, node_id, sample_ids, i + 1)
            ELSE IF node_id \notin sm[id]
            THEN [sample_mapping |-> sm, outcome |-> "KeyError"]
            ELSE RemoveSamples([sm EXCEPT ![id] = @ \ {node_id}], node_id, sample_ids, i + 1)

add_samples_on_entry(node_id) ==
    /\ Running
    /\ sample_mapping' = AddSamples(sample_mapping, node_id, get_custody_columns(node_id), 1)
    /\ last' = Called("add_samples_on_entry", "ok")
    /\ calls' = [calls EXCEPT !.custody = @ + 1]
    /\ UNCHANGED <<nodes, scores>>

remove_samples_on_exit(node_id) ==
    /\ Running
    /\ LET r == RemoveSamples(sample_mapping, node_id, get_custody_columns(node_id), 1)
       IN /\ sample_mapping' = r.sample_mapping
          /\ last' = Called("remove_samples_on_exit", r.outcome)
    /\ calls' = [calls EXCEPT !.custody = @ + 1]
    /\ UNCHANGED <<nodes, scores>>

-----------------------------------------------------------------------------
(* Scores are fractions <<numerator, denominator>> with a positive          *)
(* denominator; the arithmetic of lines 54-58, 97-104, 183-190 is exact.    *)

Frac(n, d) == <<n, d>>

FracLess(a, b) == a[1] * b[2] < b[1] * a[2]

FracLeq(a, b) == a[1] * b[2] <= b[1] * a[2]

FracEq(a, b) == a[1] * b[2] = b[1] * a[2]

FracAdd(a, b) == <<a[1] * b[2] + b[1] * a[2], a[2] * b[2]>>

FracSub(a, b) == <<a[1] * b[2] - b[1] * a[2], a[2] * b[2]>>

FracDiv(a, n) == <<a[1], a[2] * n>>

FracMax(a, b) == IF FracLess(a, b) THEN b ELSE a

\* the largest of a and the fractions in the set fs
FracMaxOf(a, fs) ==
    IF fs = {}
    THEN a
    ELSE LET top == CHOOSE f \in fs : \A g \in fs : FracLeq(g, f)
         IN FracMax(a, top)

Value(o, v) == [outcome |-> o, value |-> v]

-----------------------------------------------------------------------------
(* compute_descendant_score, compute_node_score                            *)

compute_descendant_score(sc, block_root, node_id) ==
    IF block_root \notin DOMAIN sc
    THEN Value("KeyError", Frac(0, 1))
    ELSE LET score_keeper == sc[block_root]
         IN IF node_id \notin DOMAIN score_keeper.descendants_contacted
            THEN Value("KeyError", Frac(0, 1))
            ELSE IF Cardinality(score_keeper.descendants_contacted[node_id]) > 0
            THEN IF node_id \notin DOMAIN score_keeper.descendants_replied
                 THEN Value("KeyError", Frac(0, 1))
                 ELSE Value("ok", Frac(Cardinality(score_keeper.descendants_replied[node_id]),
                                       Cardinality(score_keeper.descendants_contacted[node_id])))
            ELSE Value("ok", Frac(0, 1))

RECURSIVE PathLoopThroughOwn(_, _, _, _, _, _)
\* a mutation of PathLoop: the else branch of lines 98-104 taken for every
\* parent, own_id included, so that own_id is carried to the next frontier
PathLoopThroughOwn(ns, sc, block_root, cur, best, seen) ==
    IF DOMAIN cur = {}
    THEN Value("ok", best)
    ELSE IF cur \in seen
    THEN Value("hang", best)
    ELSE IF \E node \in DOMAIN cur : node \notin DOMAIN ns
    THEN Value("KeyError", best)
    ELSE LET ups == Parents(ns, DOMAIN cur)
             atRoot == {cur[node] : node \in {n \in DOMAIN cur : InSeq(own_id, ns[n].parents)}}
         IN IF \E parent \in ups :
                   compute_descendant_score(sc, block_root, parent).outcome # "ok"
            THEN Value("KeyError", best)
            ELSE PathLoopThroughOwn(ns, sc, block_root,
                                    [parent \in ups |->
                                        compute_descendant_score(sc, block_root, parent).value],
                                    FracMaxOf(best, atRoot),
                                    seen \cup {cur})

RECURSIVE PathLoop(_, _, _, _, _, _)
\* the while loop of lines 92-106 with cur_path_scores = cur and best_score =
\* best.  Nothing is written, so a round that meets a missing key ends in
\* KeyError whatever the order; the loop repeats for ever once a frontier
\* comes back (seen).
PathLoop(ns, sc, block_root, cur, best, seen) ==
    IF DOMAIN cur = {}
    THEN Value("ok", best)
    ELSE IF cur \in seen
    THEN Value("hang", best)
    ELSE IF \E node \in DOMAIN cur : node \notin DOMAIN ns
    THEN Value("KeyError", best)
    ELSE LET ups == Parents(ns, DOMAIN cur) \ {own_id}
             atRoot == {cur[node] : node \in {n \in DOMAIN cur : InSeq(own_id, ns[n].parents)}}
         IN IF \E parent \in ups :
                   compute_descendant_score(sc, block_root, parent).outcome # "ok"
            THEN Value("KeyError", best)
            ELSE PathLoop(ns, sc, block_root,
                          [parent \in ups |->
                              compute_descendant_score(sc, block_root, parent).value],
                          FracMaxOf(best, atRoot),
                          seen \cup {cur})

compute_node_score(ns, sc, block_root, node_id) ==
    LET score == compute_descendant_score(sc, block_root, node_id)
    IN IF score.outcome # "ok" \/ node_id \notin DOMAIN ns
       THEN Value("KeyError", Frac(0, 1))
       ELSE PathLoop(ns, sc, block_root,
                     [parent \in SeqSet(ns[node_id].parents) |-> score.value],
                     Frac(0, 1), {})

-----------------------------------------------------------------------------
(* filter_nodes                                                            *)

\* line 174
InitialFilterScore == Frac(9, 10)

\* line 190
Relaxation == Frac(1, 10)

\* line 184, filtered_nodes.update(node_id): the insertion of the one id
UpdateWithNodeId(set, node_id) == set \cup {node_id}

Orders(S) == {o \in [1..Cardinality(S) -> S] : SeqSet(o) = S}

Pass(o, f, e, t, n) == [outcome |-> o, filtered |-> f, evicted |-> e, total |-> t, count |-> n]

RECURSIVE FilterPassFlipped(_, _, _, _, _, _, _, _, _, _)
\* a mutation of FilterPass: the acceptance test of line 183 turned round
\* (score <= filter_score)
FilterPassFlipped(ns, sc, block_root, order, i, filter_score, total, count, filtered, evicted) ==
    IF i > Len(order)
    THEN Pass("ok", filtered, evicted, total, count)
    ELSE LET score == compute_node_score(ns, sc, block_root, order[i])
         IN IF score.outcome # "ok"
            THEN Pass(score.outcome, filtered, evicted, total, count)
            ELSE IF FracLeq(score.value, filter_score) /\ order[i] \notin evicted
            THEN FilterPassFlipped(ns, sc, block_root, order, i + 1, filter_score,
                                   FracAdd(total, score.value), count + 1,
                                   UpdateWithNodeId(filtered, order[i]), evicted)
            ELSE IF FracLess(score.value, filter_score)
            THEN Pass("TypeError", filtered, evicted, FracAdd(total, score.value), count + 1)
            ELSE FilterPassFlipped(ns, sc, block_root, order, i + 1, filter_score,
                                   FracAdd(total, score.value), count + 1, filtered, evicted)

RECURSIVE FilterPass(_, _, _, _, _, _, _, _, _, _)
\* the for loop of lines 179-187 over the candidates in the order the set
\* iterator gives them, from order[i] on.  Line 186 hands a NodeRecord, which
\* is not iterable, to set.update: TypeError.
FilterPass(ns, sc, block_root, order, i, filter_score, total, count, filtered, evicted) ==
    IF i > Len(order)
    THEN Pass("ok", filtered, evicted, total, count)
    ELSE LET score == compute_node_score(ns, sc, block_root, order[i])
         IN IF score.outcome # "ok"
            THEN Pass(score.outcome, filtered, evicted, total, count)
            ELSE IF FracLeq(filter_score, score.value) /\ order[i] \notin evicted
            THEN FilterPass(ns, sc, block_root, order, i + 1, filter_score,
                            FracAdd(total, score.value), count + 1,
                            UpdateWithNodeId(filtered, order[i]), evicted)
            ELSE IF FracLess(score.value, filter_score)
            THEN Pass("TypeError", filtered, evicted, FracAdd(total, score.value), count + 1)
            ELSE FilterPass(ns, sc, block_root, order, i + 1, filter_score,
                            FracAdd(total, score.value), count + 1, filtered, evicted)

Returned(o, r) == [outcome |-> o, ret |-> r]

RECURSIVE FilterLoop(_, _, _, _, _, _, _, _)
\* the while loop of lines 178-190.  Every pass appends the same scores, so
\* the mean is the same after every pass: a pass that accepts nobody and
\* changes neither the threshold nor the evicted set repeats for ever.
FilterLoop(ns, sc, block_root, order, filter_score, total, count, evicted) ==
    LET p == FilterPass(ns, sc, block_root, order, 1, filter_score, total, count, {}, evicted)
    IN IF p.outcome # "ok"
       THEN Returned(p.outcome, {})
       ELSE IF p.count = 0
       THEN Returned("ZeroDivisionError", {})
       ELSE LET relaxed == FracSub(FracDiv(p.total, p.count), Relaxation)
            IN IF p.filtered # {}
               THEN Returned("ok", p.filtered)
               ELSE IF FracEq(relaxed, filter_score) /\ p.evicted = evicted
               THEN Returned("hang", {})
               ELSE FilterLoop(ns, sc, block_root, order, relaxed, p.total, p.count, p.evicted)

\* filter_nodes with the starting threshold as a parameter
FilterFrom(ns, sc, sm, block_root, sample_id, order, filter_score) ==
    FilterLoop(ns, sc, block_root, order, filter_score, Frac(0, 1), 0, {})

FilterNodes(ns, sc, sm, block_root, sample_id, order) ==
    FilterFrom(ns, sc, sm, block_root, sample_id, order, InitialFilterScore)

compute_node_score_call(block_root, node_id) ==
    /\ Running
    /\ last' = Called("compute_node_score",
                      compute_node_score(nodes, scores, block_root, node_id).outcome)
    /\ UNCHANGED <<nodes, scores, sample_mapping, calls>>

filter_nodes(block_root, sample_id) ==
    /\ Running
    /\ IF sample_id \notin DOMAIN sample_mapping
       THEN last' = Called("filter_nodes", "KeyError")
       ELSE \E order \in Orders(sample_mapping[sample_id]) :
               last' = Called("filter_nodes",
                              FilterNodes(nodes, scores, sample_mapping,
                                          block_root, sample_id, order).outcome)
    /\ UNCHANGED <<nodes, scores, sample_mapping, calls>>

-----------------------------------------------------------------------------
(* Node.__init__                                                           *)

Init ==
    /\ nodes = DictSet(EmptyDict, own_id, NodeRecord(<<>>, <<>>))
    /\ scores = EmptyDict
    /\ sample_mapping = EmptyDict
    /\ last = Called("__init__", "ok")
    /\ calls = [peers |-> 0, score |-> 0, custody |-> 0]

\* the peer graph alone
NextGraph ==
    \E node_id \in NodeIds, peers \in PeerLists :
        /\ calls.peers < MaxGraphCalls
        /\ on_get_peers_response(node_id, peers)

SpecGraph == Init /\ [][NextGraph]_vars

\* the peer graph and the score keepers
NextLedger ==
    \/ \E node_id \in NodeIds, peers \in PeerLists :
          /\ calls.peers < MaxLedgerPeerCalls
          /\ on_get_peers_response(node_id, peers)
    \/ \E block_root \in Roots, node_id \in NodeIds, sample_id \in SampleIds :
          /\ calls.score < MaxLedgerCalls
          /\ on_request_score_update(block_root, node_id, sample_id)
    \/ \E block_root \in Roots, node_id \in NodeIds, sample_id \in SampleIds :
          /\ calls.score < MaxLedgerCalls
          /\ on_response_score_update(block_root, node_id, sample_id)

SpecLedger == Init /\ [][NextLedger]_vars

\* the custody index and the filter that reads it
NextIndex ==
    \/ \E node_id \in NodeIds :
          /\ calls.custody < MaxIndexCalls
          /\ add_samples_on_entry(node_id)
    \/ \E node_id \in NodeIds :
          /\ calls.custody < MaxIndexCalls
          /\ remove_samples_on_exit(node_id)
    \/ \E block_root \in Roots, sample_id \in SampleIds :
          filter_nodes(block_root, sample_id)

SpecIndex == Init /\ [][NextIndex]_vars

\* peer lists of at most one id, for the runs where every handler interleaves
ShortPeerLists == {peers \in PeerLists : Len(peers) <= MaxShortPeers}

Next ==
    \/ \E node_id \in NodeIds, peers \in ShortPeerLists :
          /\ calls.peers < MaxPeerCalls
          /\ on_get_peers_response(node_id, peers)
    \/ \E block_root \in Roots, node_id \in NodeIds, sample_id \in SampleIds :
          /\ calls.score < MaxScoreCalls
          /\ on_request_score_update(block_root, node_id, sample_id)
    \/ \E block_root \in Roots, node_id \in NodeIds, sample_id \in SampleIds :
          /\ calls.score < MaxScoreCalls
          /\ on_response_score_update(block_root, node_id, sample_id)
    \/ \E node_id \in NodeIds :
          /\ calls.custody < MaxCustodyCalls
          /\ add_samples_on_entry(node_id)
    \/ \E node_id \in NodeIds :
          /\ calls.custody < MaxCustodyCalls
          /\ remove_samples_on_exit(node_id)
    \/ \E block_root \in Roots, node_id \in NodeIds :
          compute_node_score_call(block_root, node_id)
    \/ \E block_root \in Roots, sample_id \in SampleIds :
          filter_nodes(block_root, sample_id)

Spec == Init /\ [][Next]_vars

\* the filter over a graph, score keepers and candidates that joined
NextFilter ==
    \/ \E node_id \in NodeIds, peers \in ShortPeerLists :
          /\ calls.peers < MaxFilterPeerCalls
          /\ on_get_peers_response(node_id, peers)
    \/ \E block_root \in Roots, node_id \in NodeIds, sample_id \in SampleIds :
          /\ calls.score < MaxFilterScoreCalls
          /\ on_request_score_update(block_root, node_id, sample_id)
    \/ \E block_root \in Roots, node_id \in NodeIds, sample_id \in SampleIds :
          /\ calls.score < MaxFilterScoreCalls
          /\ on_response_score_update(block_root, node_id, sample_id)
    \/ \E node_id \in NodeIds :
          /\ calls.custody < MaxFilterJoins
          /\ add_samples_on_entry(node_id)
    \/ \E block_root \in Roots, sample_id \in SampleIds :
          filter_nodes(block_root, sample_id)

SpecFilter == Init /\ [][NextFilter]_vars

-----------------------------------------------------------------------------
(* Vocabulary of the properties                                            *)

ParentsOf(ns, a) == IF a \in DOMAIN ns THEN SeqSet(ns[a].parents) ELSE {}

ChildrenOf(ns, a) == IF a \in DOMAIN ns THEN SeqSet(ns[a].children) ELSE {}

RECURSIVE UpClosure(_, _)
\* the ids reachable from the set as by following parents links, as included
UpClosure(ns, as) ==
    LET more == as \cup UNION {ParentsOf(ns, a) : a \in as}
    IN IF more = as THEN as ELSE UpClosure(ns, more)

\* the proper ancestors of n
Ancestors(ns, n) == UpClosure(ns, ParentsOf(ns, n))

Acyclic(ns) == \A n \in DOMAIN ns : n \notin Ancestors(ns, n)

NoDangling(ns) ==
    \A n \in DOMAIN ns : ParentsOf(ns, n) \cup ChildrenOf(ns, n) \subseteq DOMAIN ns

LinkSymmetry(ns) ==
    /\ \A a \in DOMAIN ns : \A b \in ChildrenOf(ns, a) :
          b \in DOMAIN ns /\ a \in ParentsOf(ns, b)
    /\ \A b \in DOMAIN ns : \A a \in ParentsOf(ns, b) :
          a \in DOMAIN ns /\ b \in ChildrenOf(ns, a)

\* some id above n lies on a cycle of the parents relation
CycleAbove(ns, n) == \E m \in Ancestors(ns, n) : m \in Ancestors(ns, m)

RECURSIVE UpClosureAvoiding(_, _, _)
\* the ids reachable from the set as by following parents links that do not
\* lead to x, as included
UpClosureAvoiding(ns, as, x) ==
    LET more == as \cup (UNION {ParentsOf(ns, a) : a \in as} \ {x})
    IN IF more = as THEN as ELSE UpClosureAvoiding(ns, more, x)

\* some id other than own_id, above n on links that avoid own_id past the
\* parents of n, lies on a cycle that avoids own_id
CycleAboveAvoidingOwn(ns, n) ==
    \E m \in UpClosureAvoiding(ns, ParentsOf(ns, n), own_id) \ {own_id} :
        m \in UpClosureAvoiding(ns, ParentsOf(ns, m) \ {own_id}, own_id)

\* the ways the loop of lines 123-131 (142-150) can end when started at n
WalkOutcomes(ns, n) ==
    {w.outcome : w \in AncestorWalk(ns, EmptyDict, SeqSet(ns[n].parents),
                                    <<n, CHOOSE s \in SampleIds : TRUE>>, {})}

NoDuplicates(ns) ==
    \A n \in DOMAIN ns :
        /\ Cardinality(SeqSet(ns[n].children)) = Len(ns[n].children)
        /\ Cardinality(SeqSet(ns[n].parents)) = Len(ns[n].parents)

Candidates(sm, sample_id) == IF sample_id \in DOMAIN sm THEN sm[sample_id] ELSE {}

Contacted(sc, block_root, n) ==
    IF block_root \in DOMAIN sc /\ n \in DOMAIN sc[block_root].descendants_contacted
    THEN sc[block_root].descendants_contacted[n]
    ELSE {}

Replied(sc, block_root, n) ==
    IF block_root \in DOMAIN sc /\ n \in DOMAIN sc[block_root].descendants_replied
    THEN sc[block_root].descendants_replied[n]
    ELSE {}

ContactedKeys(sc, block_root) ==
    IF block_root \in DOMAIN sc THEN DOMAIN sc[block_root].descendants_contacted ELSE {}

RepliedKeys(sc, block_root) ==
    IF block_root \in DOMAIN sc THEN DOMAIN sc[block_root].descendants_replied ELSE {}

\* the figure section 4.3 of the design gives a node: replied over contacted,
\* 0 without contacts
StatedDescendantScore(sc, block_root, n) ==
    IF Contacted(sc, block_root, n) = {}
    THEN Frac(0, 1)
    ELSE Frac(Cardinality(Replied(sc, block_root, n)),
              Cardinality(Contacted(sc, block_root, n)))

\* the nodes right below own_id on the parent paths from n up to own_id
LastHops(ns, n) == {m \in UpClosure(ns, {n}) : own_id \in ParentsOf(ns, m)}

\* the figure section 4.3 of the design gives the node score of n
StatedNodeScore(ns, sc, block_root, n) ==
    FracMaxOf(Frac(0, 1), {StatedDescendantScore(sc, block_root, m) : m \in LastHops(ns, n)})

\* starting thresholds tried in place of the 0.9 of line 174
Thresholds == {Frac(0, 1), Frac(1, 2), Frac(9, 10), Frac(1, 1)}

\* the ways filter_nodes(block_root, sample_id) can end in a state: KeyError at
\* line 179 without a set for the sample, else one way per visiting order
FilterOutcomes(ns, sc, sm, block_root, sample_id) ==
    IF sample_id \notin DOMAIN sm
    THEN {"KeyError"}
    ELSE {FilterNodes(ns, sc, sm, block_root, sample_id, order).outcome :
             order \in Orders(sm[sample_id])}

-----------------------------------------------------------------------------
(* Properties                                                              *)

\* C1 -- link symmetry: after calls of on_get_peers_response on known ids,
\* every child B of a node A of the map is in the map with A among its
\* parents, and every parent A of a node B of the map is in the map with B
\* among its children.
C1_LinkSymmetry ==
    last.outcome = "ok" => LinkSymmetry(nodes)

\* C2 -- reply implies contact: for every content root and every ancestor,
\* the replied pairs are among the contacted pairs of that ancestor.
C2_ReplyImpliesContact ==
    \A block_root \in DOMAIN scores :
        \A a \in DOMAIN scores[block_root].descendants_replied :
            Replied(scores, block_root, a) \subseteq Contacted(scores, block_root, a)

\* C3 -- for every root with a ScoreKeeper and every node, the descendant
\* score is returned without an error, lies in [0,1], is replied over
\* contacted, and is 0 when the node has no contacted entries.
C3_DescendantScoreTotal ==
    \A block_root \in DOMAIN scores : \A n \in NodeIds :
        LET d == compute_descendant_score(scores, block_root, n)
        IN /\ d.outcome = "ok"
           /\ FracLeq(Frac(0, 1), d.value) /\ FracLeq(d.value, Frac(1, 1))
           /\ FracEq(d.value, StatedDescendantScore(scores, block_root, n))

\* C4 -- path-collapsing law: a direct peer of the local node has its own
\* descendant score as its node score (stated where the graph is acyclic
\* without dangling ids and the descendant score is returned).
C4_PathCollapsing ==
    \A block_root \in DOMAIN scores : \A n \in DOMAIN nodes :
        LET d == compute_descendant_score(scores, block_root, n)
            s == compute_node_score(nodes, scores, block_root, n)
        IN (/\ InSeq(own_id, nodes[n].parents)
            /\ Acyclic(nodes) /\ NoDangling(nodes)
            /\ d.outcome = "ok")
           => (s.outcome = "ok" /\ FracEq(s.value, d.value))

\* C5 -- on an acyclic graph the node score of n is the largest descendant
\* score of the nodes right below own_id on the parent paths from n to own_id,
\* and 0 when no path reaches own_id (stated where no id dangles and the
\* descendant scores of n and of its ancestors are returned).
C5_NodeScoreIsLastHopMax ==
    \A block_root \in DOMAIN scores : \A n \in (DOMAIN nodes) \ {own_id} :
        LET s == compute_node_score(nodes, scores, block_root, n)
        IN (/\ Acyclic(nodes) /\ NoDangling(nodes)
            /\ \A m \in UpClosure(nodes, {n}) \ {own_id} :
                  compute_descendant_score(scores, block_root, m).outcome = "ok")
           => (/\ s.outcome = "ok"
               /\ FracEq(s.value, StatedNodeScore(nodes, scores, block_root, n)))

\* C6 -- on an acyclic graph filter_nodes with a non-empty candidate set
\* returns, and returns a non-empty set (stated where no id dangles, the
\* candidates are other nodes than own_id and every candidate's node score is
\* returned).
C6_FilterReturnsNonEmpty ==
    \A block_root \in DOMAIN scores : \A sample_id \in DOMAIN sample_mapping :
        \A order \in Orders(sample_mapping[sample_id]) :
            LET f == FilterNodes(nodes, scores, sample_mapping, block_root, sample_id, order)
            IN (/\ sample_mapping[sample_id] # {}
                /\ own_id \notin sample_mapping[sample_id]
                /\ Acyclic(nodes) /\ NoDangling(nodes)
                /\ \A c \in sample_mapping[sample_id] :
                      compute_node_score(nodes, scores, block_root, c).outcome = "ok")
               => (f.outcome = "ok" /\ f.ret # {})

C8_OrphanCleanup ==
    (last.op = "on_get_peers_response" /\ last.outcome = "ok")
        => \A n \in (DOMAIN nodes) \ {own_id} : Len(nodes[n].parents) >= 1

\* a completed update after which a record has been deleted: an id with no
\* record is still named as the parent of a node of the map
C8_Witness ==
    /\ last.op = "on_get_peers_response" /\ last.outcome = "ok"
    /\ \E m \in DOMAIN nodes : \E n \in ParentsOf(nodes, m) : n \notin DOMAIN nodes

\* C9 -- cycle handling: on_request_score_update and on_response_score_update
\* never loop for ever; on a cyclic parent relation they end in an error.
C9_ScoreUpdateNeverHangs ==
    last.op \in {"on_request_score_update", "on_response_score_update"}
        => last.outcome # "hang"

\* C10 -- remove_samples_on_exit(n) raises nothing and leaves sample_mapping
\* as it was when every sample n custodies has no set or a set without n.
C10_RemoveAbsentIsNoOp ==
    [][\A node_id \in NodeIds :
          (/\ remove_samples_on_exit(node_id)
           /\ \A i \in 1..Len(get_custody_columns(node_id)) :
                 node_id \notin Candidates(sample_mapping, get_custody_columns(node_id)[i]))
          => (last'.outcome = "ok" /\ sample_mapping' = sample_mapping)]_vars

\* C11 -- filter_nodes on a sample without candidates (an empty set, or no
\* set) neither loops for ever nor returns: it ends in one error of its own,
\* the same for both cases and one that no call with candidates ends in.
C11_NoCandidatesError ==
    \A block_root \in Roots : \A sample_id \in SampleIds :
        Candidates(sample_mapping, sample_id) = {}
        => \A o \in FilterOutcomes(nodes, scores, sample_mapping, block_root, sample_id) :
              /\ o \notin {"ok", "hang"}
              /\ \A other \in SampleIds :
                    LET os == FilterOutcomes(nodes, scores, sample_mapping, block_root, other)
                    IN IF Candidates(sample_mapping, other) = {}
                       THEN os = {o}
                       ELSE o \notin os

\* C12 -- on an acyclic graph on_request_score_update(root, n, s) leaves
\* (n, s) in the contacted set of every proper ancestor of n, leaves the
\* contacted entry of every other id (n included) as it was, and leaves the
\* replied map, the graph and the custody index as they were;
\* on_response_score_update, called for a root that has a ScoreKeeper, does
\* the same on the replied map.
C12_ScoreUpdatePostcondition ==
    [][\A block_root \in Roots, node_id \in NodeIds, sample_id \in SampleIds :
          LET up == Ancestors(nodes, node_id)
              pair == <<node_id, sample_id>>
          IN /\ (on_request_score_update(block_root, node_id, sample_id) /\ Acyclic(nodes))
                => /\ \A a \in up : pair \in Contacted(scores', block_root, a)
                   /\ \A x \in NodeIds \ up :
                         /\ Contacted(scores', block_root, x) = Contacted(scores, block_root, x)
                         /\ x \in ContactedKeys(scores', block_root)
                               <=> x \in ContactedKeys(scores, block_root)
                   /\ \A x \in NodeIds :
                         /\ Replied(scores', block_root, x) = Replied(scores, block_root, x)
                         /\ x \in RepliedKeys(scores', block_root)
                               <=> x \in RepliedKeys(scores, block_root)
                   /\ nodes' = nodes /\ sample_mapping' = sample_mapping
             /\ (/\ on_response_score_update(block_root, node_id, sample_id)
                 /\ Acyclic(nodes) /\ block_root \in DOMAIN scores)
                => /\ \A a \in up : pair \in Replied(scores', block_root, a)
                   /\ \A x \in NodeIds \ up :
                         /\ Replied(scores', block_root, x) = Replied(scores, block_root, x)
                         /\ x \in RepliedKeys(scores', block_root)
                               <=> x \in RepliedKeys(scores, block_root)
                   /\ \A x \in NodeIds :
                         /\ Contacted(scores', block_root, x) = Contacted(scores, block_root, x)
                         /\ x \in ContactedKeys(scores', block_root)
                               <=> x \in ContactedKeys(scores, block_root)
                   /\ nodes' = nodes /\ sample_mapping' = sample_mapping]_vars

\* C13, as stated -- in every state where a handler can be called: on an
\* acyclic parents relation the walks of on_request_score_update,
\* on_response_score_update and compute_node_score end; with a cycle above
\* the start node none of the three ever sees its frontier empty.
C13_CyclesNeverEnd ==
    Running => \A n \in DOMAIN nodes : \A block_root \in Roots :
        LET s == compute_node_score(nodes, scores, block_root, n).outcome
        IN /\ Acyclic(nodes) => ("hang" \notin WalkOutcomes(nodes, n) /\ s # "hang")
           /\ CycleAbove(nodes, n) => ("ok" \notin WalkOutcomes(nodes, n) /\ s # "ok")

\* C13, amended -- in every state where a handler can be called: the walks
\* of on_request_score_update and on_response_score_update end when no
\* cycle lies above the start node and
\* never see their frontier empty when one does; the walk of
\* compute_node_score never puts own_id on a later frontier, so it ends
\* unless a cycle that avoids own_id lies above the start node, and never
\* sees its frontier empty when such a cycle does.
C13_WalkTermination ==
    Running => \A n \in DOMAIN nodes : \A block_root \in Roots :
        LET s == compute_node_score(nodes, scores, block_root, n).outcome
        IN /\ ~CycleAbove(nodes, n) => "hang" \notin WalkOutcomes(nodes, n)
           /\ CycleAbove(nodes, n) => "ok" \notin WalkOutcomes(nodes, n)
           /\ ~CycleAboveAvoidingOwn(nodes, n) => s # "hang"
           /\ CycleAboveAvoidingOwn(nodes, n) => s # "ok"

\* compute_node_score has returned, and it returns for a node below a cycle
\* whose every round trip passes through own_id
C13_Witness ==
    /\ last.op = "compute_node_score" /\ last.outcome = "ok"
    /\ \E n \in DOMAIN nodes : \E block_root \in Roots :
          /\ CycleAbove(nodes, n) /\ ~CycleAboveAvoidingOwn(nodes, n)
          /\ compute_node_score(nodes, scores, block_root, n).outcome = "ok"

\* C14 -- after a completed on_get_peers_response(node_id, peers), from any
\* graph, the children of node_id are exactly the ids in peers, and no id
\* outside peers keeps node_id among its parents (stated where the record of
\* node_id is still in the map after the call).
C14_ChildrenArePeers ==
    [][\A node_id \in NodeIds, peers \in PeerLists :
          (/\ on_get_peers_response(node_id, peers)
           /\ last'.outcome = "ok" /\ node_id \in DOMAIN nodes')
          => /\ ChildrenOf(nodes', node_id) = SeqSet(peers)
             /\ \A x \in NodeIds \ SeqSet(peers) : node_id \notin ParentsOf(nodes', x)]_vars

\* C15 -- within one pass of filter_nodes, whatever the visiting order, the
\* accepted set holds no candidate that scored below the threshold of the
\* pass and no child of a candidate that scored below it in that pass.
C15_EvictedNeverAccepted ==
    Running =>
    \A block_root \in Roots : \A sample_id \in DOMAIN sample_mapping :
        \A order \in Orders(sample_mapping[sample_id]) : \A t \in Thresholds :
            LET p == FilterPass(nodes, scores, block_root, order, 1, t, Frac(0, 1), 0, {}, {})
                visited == {order[i] : i \in 1..p.count}
                below == {q \in visited :
                             FracLess(compute_node_score(nodes, scores, block_root, q).value, t)}
            IN \A c \in p.filtered :
                  c \notin below /\ \A q \in below : c \notin ChildrenOf(nodes, q)

\* C16 -- the local node is exempt from orphan removal: after any calls of
\* on_get_peers_response the node map still holds the record of own_id.
C16_OwnRecordKept ==
    own_id \in DOMAIN nodes

\* C17 -- on_response_score_update for a content root without a ScoreKeeper
\* ends in an error and leaves the score keepers, the graph and the custody
\* index as they were: no ScoreKeeper and no replied entry is created.
C17_ReplyBeforeContactFails ==
    [][\A block_root \in Roots, node_id \in NodeIds, sample_id \in SampleIds :
          (/\ on_response_score_update(block_root, node_id, sample_id)
           /\ block_root \notin DOMAIN scores)
          => /\ last'.outcome \notin {"ok", "hang"}
             /\ scores' = scores /\ nodes' = nodes /\ sample_mapping' = sample_mapping]_vars

\* on_response_score_update has just failed for a node of a graph with
\* links, and the root still has no ScoreKeeper
C17_Witness ==
    /\ last.op = "on_response_score_update" /\ last.outcome = "KeyError"
    /\ \E block_root \in Roots : block_root \notin DOMAIN scores
    /\ \E n \in DOMAIN nodes : Len(nodes[n].parents) > 0

\* C18 -- acyclicity by construction: after any calls of
\* on_get_peers_response on ids of the map no node is its own ancestor.
C18_AcyclicByConstruction ==
    Acyclic(nodes)

\* C19 -- no dangling references: after any calls of on_get_peers_response
\* every id in a parents or children list of a record of the map is a key of
\* the map.
C19_NoDanglingReferences ==
    NoDangling(nodes)

\* C20 -- idempotent peer-list update: no parents or children list holds an
\* id twice, and a completed on_get_peers_response(node_id, peers) applied
\* again to its own result completes and changes nothing.
C20_IdempotentUpdate ==
    /\ NoDuplicates(nodes)
    /\ \A node_id \in DOMAIN nodes : \A peers \in PeerLists :
          LET once == GetPeersResponse(nodes, node_id, peers)
          IN (once.outcome = "ok" /\ node_id \in DOMAIN once.nodes)
             => LET twice == GetPeersResponse(once.nodes, node_id, peers)
                IN twice.outcome = "ok" /\ twice.nodes = once.nodes

====
